---------------------------- MODULE Spec2Model ----------------------------
(***************************************************************************)
(* libentangle signaling core.                                             *)
(*                                                                         *)
(* Spec       : the rendezvous server, CommunitiesManager                  *)
(*              (pkg/handlers, communities manager), driven by the         *)
(*              messages its connections deliver.                          *)
(* ClientSpec : one client's ClientManager                                 *)
(*              (pkg/handlers/client_handlers.go), driven by the messages  *)
(*              the server relays to it.                                   *)
(* ChannelSpec : the same client with the data channels of its peers and   *)
(*              the application's SendMessage calls.                       *)
(* SystemSpec : the server and the HandleConn processes of two clients,    *)
(*              goroutine by goroutine, with signals and exit triggers.    *)
(* HandshakeSpec : the same system without exits, fairly scheduled.        *)
(***************************************************************************)
EXTENDS Integers, Sequences, FiniteSets, TLC

(***************************************************************************)
(* Bounds of the model.                                                    *)
(***************************************************************************)
Macs        == {"A", "B", "C"}
Communities == {"c", "d"}
ConnOrder   == <<"c1", "c2", "c3">>
Conns       == {ConnOrder[i] : i \in 1..Len(ConnOrder)}
Payloads    == {"p1", "p2"}
MaxIntro    == 2
MaxCandidates == 2
MaxGather   == 1

\* the client under study and the peers it can meet
Self        == "A"
Remotes     == Macs \ {Self}

\* the clients of the composed system, their community, their connections
SysClients   == {"A", "B"}
SysCommunity == "c"
SysConn      == [c \in SysClients |-> IF c = "A" THEN "c1" ELSE "c2"]
\* the clients of the system that a signal or an exit trigger can reach
Leavers      == {"A"}

NoMac    == "none"
NoConn   == "none"
ZeroConn == "zero"

VARIABLES
    communities,      \* CommunitiesManager.communities : community -> roster
    macs,             \* CommunitiesManager.macs        : mac -> connection
    introducedPeers,  \* CommunitiesManager.introducedPeers : ledger of pairs
    applied,          \* connections that have sent their Application
    closed,           \* connections whose transport is closed
    out,              \* the wsjson.Write calls of the handler that ran last
    last,             \* the message handled last and the handler's result
    introductions     \* Introductions written per unordered pair of macs

VARIABLES
    peers,            \* ClientManager.peers : remote mac -> peer
    selfMac,          \* ClientManager.mac, set on Acceptance
    wg,               \* the sync.WaitGroup counter of HandleConn
    sent,             \* the wsjson.Write calls of the client handler that ran last
    received,         \* the Candidate payloads received, per remote, in order
    delivered,        \* the Introduction/Offer/Answer received, per remote
    crashed,          \* the client process died of a panic
    clast,            \* the message the client handled last and the result
    handleConn,       \* SignalingClient.HandleConn: running, or what it returned
    rejected,         \* the server answered the Application with Rejection
    connected,        \* the calls of the onConnected hook, per remote
    dcSent            \* the DataChannel.Send calls of the step that ran last

serverVars == <<communities, macs, introducedPeers, applied, closed, out,
                last, introductions>>

clientVars == <<peers, selfMac, wg, sent, received, delivered, crashed, clast,
                handleConn, rejected, connected, dcSent>>

VARIABLES
    proc,             \* the HandleConn process of each client of the system
    toServer,         \* per client: messages written, not yet read by the server
    toClient,         \* per client: messages on its sink, not yet read by it
    written           \* per client: every message written on its transport

sysVars == <<proc, toServer, toClient, written>>

vars == <<serverVars, clientVars, sysVars>>

(***************************************************************************)
(* Wire messages (api.Message and its variants).                           *)
(***************************************************************************)
RelayOps == {"Offer", "Answer", "Candidate"}

Msg(op, mac, payload, senderMac, receiverMac) ==
    [opcode |-> op, mac |-> mac, payload |-> payload,
     senderMac |-> senderMac, receiverMac |-> receiverMac]

NewRejection        == Msg("Rejection", NoMac, "none", NoMac, NoMac)
NewAcceptance       == Msg("Acceptance", NoMac, "none", NoMac, NoMac)
NewIntroduction(m)  == Msg("Introduction", m, "none", NoMac, NoMac)
NewResignation(m)   == Msg("Resignation", m, "none", NoMac, NoMac)
NoMsg               == Msg("none", NoMac, "none", NoMac, NoMac)

\* the Offer, Answer and Candidate messages fed to the server: any payload,
\* any receiver, and one sender per receiver (the server never reads
\* senderMac, it only passes it on)
SenderFor == [r \in Macs |-> CASE r = "A" -> "B" [] r = "B" -> "C"
                                [] OTHER -> "A"]

RelayMsgs(op) ==
    {Msg(op, NoMac, a[1], SenderFor[a[2]], a[2]) : a \in Payloads \X Macs}

(***************************************************************************)
(* wsjson.Write(ctx, conn, msg): succeeds on an open connection, fails on  *)
(* a closed one and on the zero-valued Conn a missing map key yields.      *)
(***************************************************************************)
WriteOk(conn) == conn \in Conns /\ conn \notin closed

\* one write call: the map key looked up (NoMac for a reply on the caller's
\* own connection), the connection written to, the message, the outcome
Write(to, conn, msg) ==
    [to |-> to, conn |-> conn, msg |-> msg, ok |-> WriteOk(conn)]

\* m.macs[mac]: the bound connection, or the zero value for a missing key
Receiver(mac) == IF mac \in DOMAIN macs THEN macs[mac] ELSE ZeroConn

\* m.communities[community]: the roster, or nil for a missing key
Roster(community) ==
    IF community \in DOMAIN communities THEN communities[community] ELSE <<>>

Range(s) == {s[i] : i \in 1..Len(s)}

Last(op, mac, community, conn, msg, res, removed) ==
    [op |-> op, mac |-> mac, community |-> community, conn |-> conn,
     msg |-> msg, res |-> res, removed |-> removed]

Pair(a, b) == {a, b}
Pairs == {Pair(a, b) : a \in Macs, b \in Macs} \ {{m} : m \in Macs}

(***************************************************************************)
(* Helpers of CommunitiesManager.                                          *)
(***************************************************************************)
\* getCommunity: the communities whose roster holds mac (map iteration
\* order is unspecified, so the handler takes any of them)
getCommunity(mac) ==
    {c \in DOMAIN communities : mac \in Range(communities[c])}

\* deleteCommunity() whose search never moves elementIndex off 0
deleteFirst(s, str) == SubSeq(s, 2, Len(s))

\* deleteCommunity() that moves the last element into the freed slot
deleteSwapLast(s, str) ==
    LET hits == {i \in 1..Len(s) : s[i] = str}
        elementIndex == IF hits = {} THEN 1
                        ELSE CHOOSE i \in hits : \A j \in hits : j <= i
    IN  SubSeq([s EXCEPT ![elementIndex] = s[Len(s)]], 1, Len(s) - 1)

\* deleteCommunity(s, str): drops the element at the last index holding str
\* (index 0 when none does)
deleteCommunity(s, str) ==
    LET hits == {i \in 1..Len(s) : s[i] = str}
        elementIndex == IF hits = {} THEN 1
                        ELSE CHOOSE i \in hits : \A j \in hits : j <= i
    IN  SubSeq(s, 1, elementIndex - 1) \o SubSeq(s, elementIndex + 1, Len(s))

\* introduced() that compares a ledger entry in the stored order only
introducedOneWay(ledger, firstMac, secondMac) ==
    \E i \in 1..Len(ledger) :
        ledger[i][1] = firstMac /\ ledger[i][2] = secondMac

\* introduced(firstMac, secondMac), on a given ledger
introducedIn(ledger, firstMac, secondMac) ==
    \E i \in 1..Len(ledger) :
        \/ ledger[i][1] = firstMac /\ ledger[i][2] = secondMac
        \/ ledger[i][1] = secondMac /\ ledger[i][2] = firstMac

introduced(firstMac, secondMac) ==
    introducedIn(introducedPeers, firstMac, secondMac)

\* introduce(firstMac, secondMac), on a given ledger
introduce(ledger, firstMac, secondMac) ==
    Append(ledger, <<firstMac, secondMac>>)

\* removeAssociatedPairs() that looks at the first mac of a pair only
removeFirstOnly(ledger, mac) ==
    SelectSeq(ledger, LAMBDA pair : ~(pair[1] = mac))

\* removeAssociatedPairs(mac): the ledger without the pairs naming mac
removeAssociatedPairs(ledger, mac) ==
    SelectSeq(ledger, LAMBDA pair : ~(pair[1] = mac \/ pair[2] = mac))

(***************************************************************************)
(* Initial state: NewCommunitiesManager, no connection dialled yet.        *)
(***************************************************************************)
ServerInit ==
    /\ communities = <<>>
    /\ macs = <<>>
    /\ introducedPeers = <<>>
    /\ applied = {}
    /\ closed = {}
    /\ out = <<>>
    /\ last = Last("none", NoMac, "none", NoConn, NoMsg, "none", 0)
    /\ introductions = [p \in Pairs |-> 0]

(***************************************************************************)
(* Initial state of the client: NewClientManager, connection dialled and   *)
(* the Application sent.                                                   *)
(***************************************************************************)
CLast(op, remote, payload, res) ==
    [op |-> op, remote |-> remote, payload |-> payload, res |-> res]

ClientInit ==
    /\ peers = <<>>
    /\ selfMac = NoMac
    /\ wg = 0
    /\ sent = <<>>
    /\ received = [r \in Remotes |-> <<>>]
    /\ delivered = [r \in Remotes |-> {}]
    /\ crashed = FALSE
    /\ clast = CLast("none", NoMac, "none", "none")
    /\ handleConn = "running"
    /\ rejected = FALSE
    /\ connected = [r \in Remotes |-> 0]
    /\ dcSent = <<>>

(***************************************************************************)
(* The composed system: the server and the HandleConn processes of two     *)
(* clients that apply to one community.  A process is its goroutines: the  *)
(* receive loop, the OnICECandidate callbacks of its peer connections, the *)
(* signal handler and the select loop.  A goroutine that calls             *)
(* wsjson.Write is inside the call until a later step completes it.        *)
(***************************************************************************)
NewApplication(community, m) == Msg("Application", m, community, NoMac, NoMac)
NewCandidate(payload, senderMac, receiverMac) ==
    Msg("Candidate", NoMac, payload, senderMac, receiverMac)

\* NewClientManager and the locals of HandleConn
NewProc ==
    [status |-> "running", mac |-> NoMac, peers |-> <<>>, gather |-> <<>>,
     wg |-> 0, recv |-> NoMsg, ice |-> NoMsg, sig |-> "idle",
     main |-> "select"]

SysInit ==
    /\ proc = [c \in SysClients |-> NewProc]
    /\ toServer = [c \in SysClients |-> <<NewApplication(SysCommunity, c)>>]
    /\ toClient = [c \in SysClients |-> <<>>]
    /\ written = [c \in SysClients |-> <<NewApplication(SysCommunity, c)>>]

Init == ServerInit /\ ClientInit /\ SysInit


(***************************************************************************)
(* HandleApplication(application, conn).  Every connection sends exactly   *)
(* one Application, right after it is dialled; connections are dialled in  *)
(* the order of their names.                                               *)
(***************************************************************************)
\* the lookup of HandleApplication made in the roster map instead
RegisteredWrongMap(mac) == mac \in DOMAIN communities

\* _, ok := m.macs[application.Mac]
Registered(mac) == mac \in DOMAIN macs

\* m.macs[application.Mac] = *conn
Bind(mac, conn) ==
    [m \in DOMAIN macs \cup {mac} |-> IF m = mac THEN conn ELSE macs[m]]

\* m.communities[c] = append(m.communities[c], application.Mac), which
\* creates the roster when the community is new
Join(community, mac) ==
    [c \in DOMAIN communities \cup {community} |->
        IF c = community THEN Append(Roster(community), mac)
        ELSE communities[c]]

NextConn ==
    IF applied = Conns THEN NoConn ELSE ConnOrder[Cardinality(applied) + 1]

HandleApplication(mac, community, conn) ==
    /\ conn = NextConn
    /\ applied' = applied \cup {conn}
    /\ IF Registered(mac)
       THEN \* Send rejection. That mac is already contained
            LET w == Write(NoMac, conn, NewRejection) IN
            /\ out' = <<w>>
            /\ last' = Last("Application", mac, community, conn, NoMsg,
                            IF w.ok THEN "ok" ELSE "err", 0)
            /\ UNCHANGED <<communities, macs>>
       ELSE LET w == Write(NoMac, conn, NewAcceptance) IN
            /\ macs' = Bind(mac, conn)
            /\ communities' = Join(community, mac)
            /\ out' = <<w>>
            /\ last' = Last("Application", mac, community, conn, NoMsg,
                            IF w.ok THEN "ok" ELSE "err", 0)
    /\ UNCHANGED <<introducedPeers, closed, introductions>>
    /\ UNCHANGED clientVars

(***************************************************************************)
(* HandleReady(ready, conn): the loop over the roster, in roster order.    *)
(***************************************************************************)
\* the loop with the Introduction written to the sink of the mac that sent
\* Ready instead of the peer's
RECURSIVE ReadyLoopOwnSink(_, _, _, _, _)
ReadyLoopOwnSink(roster, i, readyMac, ledger, writes) ==
    IF i > Len(roster)
    THEN [ledger |-> ledger, out |-> writes, res |-> "ok"]
    ELSE LET mac == roster[i] IN
         IF mac = readyMac \/ introducedIn(ledger, readyMac, mac)
         THEN ReadyLoopOwnSink(roster, i + 1, readyMac, ledger, writes)
         ELSE LET w == Write(readyMac, Receiver(readyMac),
                             NewIntroduction(mac)) IN
              IF ~w.ok
              THEN [ledger |-> ledger, out |-> Append(writes, w),
                    res |-> "err"]
              ELSE ReadyLoopOwnSink(roster, i + 1, readyMac,
                                    introduce(ledger, readyMac, mac),
                                    Append(writes, w))

RECURSIVE ReadyLoop(_, _, _, _, _)
ReadyLoop(roster, i, readyMac, ledger, writes) ==
    IF i > Len(roster)
    THEN [ledger |-> ledger, out |-> writes, res |-> "ok"]
    ELSE LET mac == roster[i] IN
         IF mac = readyMac \/ introducedIn(ledger, readyMac, mac)
         THEN ReadyLoop(roster, i + 1, readyMac, ledger, writes)
         ELSE LET w == Write(mac, Receiver(mac), NewIntroduction(readyMac)) IN
              IF ~w.ok
              THEN [ledger |-> ledger, out |-> Append(writes, w),
                    res |-> "err"]
              ELSE ReadyLoop(roster, i + 1, readyMac,
                             introduce(ledger, readyMac, mac),
                             Append(writes, w))

\* Introductions the writes put on a sink, per unordered pair
IntroducedBy(writes, p) ==
    Len(SelectSeq(writes, LAMBDA w :
            /\ w.ok
            /\ w.msg.opcode = "Introduction"
            /\ Pair(w.to, w.msg.mac) = p))

HandleReady(mac) ==
    /\ IF getCommunity(mac) = {}
       THEN /\ out' = <<>>
            /\ last' = Last("Ready", mac, "none", NoConn, NoMsg, "err", 0)
            /\ UNCHANGED <<introducedPeers, introductions>>
       ELSE \E community \in getCommunity(mac) :
            LET r == ReadyLoop(Roster(community), 1, mac, introducedPeers,
                               <<>>)
            IN  /\ \A p \in Pairs :
                       introductions[p] + IntroducedBy(r.out, p) <= MaxIntro
                /\ introducedPeers' = r.ledger
                /\ out' = r.out
                /\ last' = Last("Ready", mac, community, NoConn, NoMsg,
                                r.res, 0)
                /\ introductions' =
                       [p \in Pairs |->
                           introductions[p] + IntroducedBy(r.out, p)]
    /\ UNCHANGED <<communities, macs, applied, closed>>
    /\ UNCHANGED clientVars

(***************************************************************************)
(* HandleOffer / HandleAnswer / HandleCandidate: look up the receiver and  *)
(* write the message to it.  The write on the zero-valued Conn of a        *)
(* missing receiver cannot succeed: it returns an error or panics.         *)
(***************************************************************************)
Relayed(msg, w) ==
    /\ out' = <<w>>
    /\ \E res \in (IF w.ok THEN {"ok"}
                    ELSE IF w.conn = ZeroConn THEN {"err", "panic"}
                    ELSE {"err"}) :
          last' = Last(msg.opcode, msg.receiverMac, "none", NoConn, msg,
                       res, 0)
    /\ UNCHANGED <<communities, macs, introducedPeers, applied, closed,
                   introductions>>
    /\ UNCHANGED clientVars

\* HandleOffer() that looks the sender up instead of the receiver
HandleOfferToSender(offer) ==
    LET receiver == Receiver(offer.senderMac) IN
    Relayed(offer, Write(offer.senderMac, receiver, offer))

HandleOffer(offer) ==
    LET receiver == Receiver(offer.receiverMac) IN
    Relayed(offer, Write(offer.receiverMac, receiver, offer))

HandleAnswer(answer) ==
    LET receiver == Receiver(answer.receiverMac) IN
    Relayed(answer, Write(answer.receiverMac, receiver, answer))

HandleCandidate(candidate) ==
    LET receiver == Receiver(candidate.receiverMac) IN
    Relayed(candidate, Write(candidate.receiverMac, receiver, candidate))

(***************************************************************************)
(* HandleExited(exited).                                                   *)
(***************************************************************************)
RECURSIVE ExitedLoop(_, _, _, _)
ExitedLoop(roster, i, exitedMac, writes) ==
    IF i > Len(roster)
    THEN [out |-> writes, res |-> "ok"]
    ELSE LET mac == roster[i] IN
         IF mac = exitedMac
         THEN ExitedLoop(roster, i + 1, exitedMac, writes)
         ELSE LET w == Write(mac, Receiver(mac), NewResignation(exitedMac)) IN
              IF ~w.ok
              THEN [out |-> Append(writes, w), res |-> "err"]
              ELSE ExitedLoop(roster, i + 1, exitedMac, Append(writes, w))

HandleExited(mac) ==
    /\ IF getCommunity(mac) = {}
       THEN /\ out' = <<>>
            /\ last' = Last("Exited", mac, "none", NoConn, NoMsg, "err", 0)
            /\ UNCHANGED <<communities, macs, introducedPeers,
                           introductions>>
       ELSE \E community \in getCommunity(mac) :
            LET ledger == removeAssociatedPairs(introducedPeers, mac)
                r      == ExitedLoop(Roster(community), 1, mac, <<>>)
                roster == deleteCommunity(Roster(community), mac)
            IN  /\ introducedPeers' = ledger
                /\ introductions' =
                       [p \in Pairs |->
                           IF mac \in p THEN 0 ELSE introductions[p]]
                /\ out' = r.out
                /\ last' = Last("Exited", mac, community, NoConn, NoMsg,
                                r.res, Len(introducedPeers) - Len(ledger))
                /\ IF r.res = "ok"
                   THEN /\ macs' = [m \in DOMAIN macs \ {mac} |-> macs[m]]
                        /\ communities' =
                               IF Len(roster) = 0
                               THEN [c \in DOMAIN communities \ {community}
                                        |-> communities[c]]
                               ELSE [communities EXCEPT ![community] = roster]
                   ELSE UNCHANGED <<communities, macs>>
    /\ UNCHANGED <<applied, closed>>
    /\ UNCHANGED clientVars

(***************************************************************************)
(* A dialled connection is closed by its client, or its transport fails.   *)
(***************************************************************************)
CloseConn(conn) ==
    /\ conn \in applied \ closed
    /\ closed' = closed \cup {conn}
    /\ out' = <<>>
    /\ last' = Last("Close", NoMac, "none", conn, NoMsg, "ok", 0)
    /\ UNCHANGED <<communities, macs, introducedPeers, applied,
                   introductions>>
    /\ UNCHANGED clientVars

Next ==
    \/ \E mac \in Macs, community \in Communities, conn \in Conns :
          HandleApplication(mac, community, conn) /\ UNCHANGED sysVars
    \/ \E mac \in Macs :
          HandleReady(mac) /\ UNCHANGED sysVars
    \/ \E offer \in RelayMsgs("Offer") :
          HandleOffer(offer) /\ UNCHANGED sysVars
    \/ \E answer \in RelayMsgs("Answer") :
          HandleAnswer(answer) /\ UNCHANGED sysVars
    \/ \E candidate \in RelayMsgs("Candidate") :
          HandleCandidate(candidate) /\ UNCHANGED sysVars
    \/ \E mac \in Macs :
          HandleExited(mac) /\ UNCHANGED sysVars
    \/ \E conn \in Conns :
          CloseConn(conn) /\ UNCHANGED sysVars

Spec == Init /\ [][Next]_vars

(***************************************************************************)
(* The client, ClientManager.  The peer-connection stack is an opaque      *)
(* dependency whose calls succeed; a peer records the calls made on its    *)
(* connection.                                                             *)
(***************************************************************************)
NewReady(m) == Msg("Ready", m, "none", NoMac, NoMac)
NewOffer(payload, senderMac, receiverMac) ==
    Msg("Offer", NoMac, payload, senderMac, receiverMac)
NewAnswer(payload, senderMac, receiverMac) ==
    Msg("Answer", NoMac, payload, senderMac, receiverMac)

Call(name, arg) == [call |-> name, arg |-> arg]

\* &peer{connection: peerConnection, candidates: []}: a fresh connection,
\* no description installed, no channel created or announced on it, the
\* channel field nil
NewPeer ==
    [remoteDescription |-> "none", localDescription |-> "none",
     dataChannel |-> FALSE, announced |-> FALSE, channel |-> FALSE,
     candidates |-> <<>>, calls |-> <<>>]

\* createPeer: m.peers[mac] = &peer{...}, replacing an entry it finds
createPeer(remote) ==
    [r \in DOMAIN peers \cup {remote} |->
        IF r = remote THEN NewPeer ELSE peers[r]]

\* the calls AddICECandidate(c) for the candidates cs, in the order of cs
RECURSIVE AddAll(_, _)
AddAll(calls, cs) ==
    IF cs = <<>> THEN calls
    ELSE AddAll(Append(calls, Call("AddICECandidate", Head(cs))), Tail(cs))

\* the drain that feeds the buffer and leaves it as it is
DrainKeepsBuffer(p) ==
    IF Len(p.candidates) > 0
    THEN [p EXCEPT !.calls = AddAll(p.calls, p.candidates)]
    ELSE p

\* HandleAnswer, lines 136-144: feed the buffered candidates, clear the buffer
Drain(p) ==
    IF Len(p.candidates) > 0
    THEN [p EXCEPT !.calls = AddAll(p.calls, p.candidates),
                   !.candidates = <<>>]
    ELSE p

\* the receive loop of HandleConn reads the next message
Receiving == ~crashed /\ handleConn = "running"

\* a handler of the receive loop calls no hook, sends nothing on a data
\* channel and leaves HandleConn running
ClientRest ==
    /\ dcSent' = <<>>
    /\ UNCHANGED <<handleConn, rejected, connected>>

\* a panic in the receive loop ends the process
Panic(op, remote, payload) ==
    /\ crashed' = TRUE
    /\ clast' = CLast(op, remote, payload, "panic")
    /\ sent' = <<>>
    /\ UNCHANGED <<peers, selfMac, wg>>

\* Acceptance arrives once, in answer to the Application
HandleAcceptance ==
    /\ Receiving /\ selfMac = NoMac /\ ~rejected
    /\ selfMac' = Self
    /\ sent' = <<NewReady(Self)>>
    /\ clast' = CLast("Acceptance", NoMac, "none", "ok")
    /\ UNCHANGED <<peers, wg, received, delivered, crashed>>
    /\ ClientRest
    /\ UNCHANGED serverVars

\* Introduction(remote): the server sends it to one side of a pair, once
HandleIntroduction(remote) ==
    /\ Receiving /\ selfMac # NoMac
    /\ delivered[remote] = {}
    /\ delivered' = [delivered EXCEPT ![remote] = {"Introduction"}]
    /\ wg' = wg + 1
    /\ peers' = [createPeer(remote) EXCEPT
                    ![remote].dataChannel = TRUE,
                    ![remote].localDescription = "offer"]
    /\ sent' = <<NewOffer("offer", Self, remote)>>
    /\ clast' = CLast("Introduction", remote, "none", "ok")
    /\ UNCHANGED <<selfMac, received, crashed>>
    /\ ClientRest
    /\ UNCHANGED serverVars

\* Offer(payload, remote, self): sent by the side that got the Introduction
HandleOfferClient(remote, payload) ==
    /\ Receiving /\ selfMac # NoMac
    /\ delivered[remote] = {}
    /\ delivered' = [delivered EXCEPT ![remote] = {"Offer"}]
    /\ wg' = wg    \* wg.Add(1) ... wg.Done()
    /\ peers' = [createPeer(remote) EXCEPT
                    ![remote].remoteDescription = payload,
                    ![remote].calls =
                        <<Call("SetRemoteDescription", payload)>>,
                    ![remote].localDescription = "answer"]
    /\ sent' = <<NewAnswer("answer", Self, remote)>>
    /\ clast' = CLast("Offer", remote, payload, "ok")
    /\ UNCHANGED <<selfMac, received, crashed>>
    /\ ClientRest
    /\ UNCHANGED serverVars

\* Answer(payload, remote, self): the reply to the Offer this client sent
HandleAnswerClient(remote, payload) ==
    /\ Receiving /\ selfMac # NoMac
    /\ "Introduction" \in delivered[remote]
    /\ "Answer" \notin delivered[remote]
    /\ delivered' = [delivered EXCEPT ![remote] = @ \cup {"Answer"}]
    /\ UNCHANGED received
    /\ IF remote \notin DOMAIN peers \/ wg = 0
       THEN Panic("Answer", remote, payload)
       ELSE /\ peers' = [peers EXCEPT ![remote] =
                   Drain([peers[remote] EXCEPT
                       !.remoteDescription = payload,
                       !.calls = Append(@, Call("SetRemoteDescription",
                                                payload))])]
            /\ wg' = wg - 1
            /\ sent' = <<>>
            /\ clast' = CLast("Answer", remote, payload, "ok")
            /\ UNCHANGED <<selfMac, crashed>>
    /\ ClientRest
    /\ UNCHANGED serverVars

\* Candidate(payload, remote, self): the remote's local ICE candidates, which
\* it writes from a callback that runs beside its receive loop
HandleCandidateClient(remote, payload) ==
    /\ Receiving /\ selfMac # NoMac
    /\ Len(received[remote]) < MaxCandidates
    /\ received' = [received EXCEPT ![remote] = Append(@, payload)]
    /\ UNCHANGED delivered
    /\ IF remote \notin DOMAIN peers
       THEN \* m.peers[mac] is nil: getPeerConnection dereferences it
            Panic("Candidate", remote, payload)
       ELSE /\ peers' = [peers EXCEPT
                   ![remote].calls =
                       IF peers[remote].remoteDescription # "none"
                       THEN Append(@, Call("AddICECandidate", payload))
                       ELSE @,
                   ![remote].candidates = Append(@, payload)]
            /\ sent' = <<>>
            /\ clast' = CLast("Candidate", remote, payload, "ok")
            /\ UNCHANGED <<selfMac, wg, crashed>>
    /\ ClientRest
    /\ UNCHANGED serverVars

\* Resignation(remote): HandleResignation returns nil
HandleResignation(remote) ==
    /\ Receiving /\ selfMac # NoMac
    /\ sent' = <<>>
    /\ clast' = CLast("Resignation", remote, "none", "ok")
    /\ UNCHANGED <<peers, selfMac, wg, received, delivered, crashed>>
    /\ ClientRest
    /\ UNCHANGED serverVars

(***************************************************************************)
(* SignalingClient.HandleConn: what the receive loop and the select loop   *)
(* do beside calling the handlers of ClientManager.                        *)
(***************************************************************************)
NewExited(m) == Msg("Exited", m, "none", NoMac, NoMac)

\* Rejection arrives in answer to the Application: the opcode switch of the
\* receive loop has no case for it, the loop reads on
HandleRejectionClient ==
    /\ Receiving /\ selfMac = NoMac /\ ~rejected
    /\ rejected' = TRUE
    /\ sent' = <<>>
    /\ dcSent' = <<>>
    /\ clast' = CLast("Rejection", NoMac, "none", "ignored")
    /\ UNCHANGED <<peers, selfMac, wg, received, delivered, crashed,
                   handleConn, connected>>
    /\ UNCHANGED serverVars

\* case <-config.ExitClient: write Exited(uuid), return nil
ExitClient ==
    /\ Receiving
    /\ sent' = <<NewExited(Self)>>
    /\ dcSent' = <<>>
    /\ handleConn' = "nil"
    /\ clast' = CLast("ExitClient", NoMac, "none", "ok")
    /\ UNCHANGED <<peers, selfMac, wg, received, delivered, crashed,
                   rejected, connected>>
    /\ UNCHANGED serverVars

\* conn.Read fails with an error other than io.EOF: fatal <- err, and the
\* select loop returns it
ReadFailure ==
    /\ Receiving
    /\ sent' = <<>>
    /\ dcSent' = <<>>
    /\ handleConn' = "err"
    /\ clast' = CLast("ReadFailure", NoMac, "none", "err")
    /\ UNCHANGED <<peers, selfMac, wg, received, delivered, crashed,
                   rejected, connected>>
    /\ UNCHANGED serverVars

(***************************************************************************)
(* The data channel of a peer.  The peer-connection stack announces to the *)
(* answering side the channel the offering side created, and opens a       *)
(* channel once, after both descriptions of its connection are installed;  *)
(* the callbacks are followed while HandleConn runs.                       *)
(***************************************************************************)
Negotiated(remote) ==
    /\ remote \in DOMAIN peers
    /\ peers[remote].remoteDescription # "none"
    /\ peers[remote].localDescription # "none"

\* an OnDataChannel callback that calls the hook as soon as the channel is
\* announced, and again when it opens
OnDataChannelConnects(remote) ==
    /\ Receiving
    /\ Negotiated(remote)
    /\ "Offer" \in delivered[remote]
    /\ ~peers[remote].announced
    /\ peers' = [peers EXCEPT ![remote].announced = TRUE]
    /\ connected' = [connected EXCEPT ![remote] = @ + 1]
    /\ sent' = <<>>
    /\ dcSent' = <<>>
    /\ clast' = CLast("OnDataChannel", remote, "none", "ok")
    /\ UNCHANGED <<selfMac, wg, received, delivered, crashed, handleConn,
                   rejected>>
    /\ UNCHANGED serverVars

\* peerConnection.OnDataChannel(func(dc)): the channel of the remote that
\* sent the Offer is announced; the callback registers dc.OnOpen
OnDataChannel(remote) ==
    /\ Receiving
    /\ Negotiated(remote)
    /\ "Offer" \in delivered[remote]
    /\ ~peers[remote].announced
    /\ peers' = [peers EXCEPT ![remote].announced = TRUE]
    /\ sent' = <<>>
    /\ dcSent' = <<>>
    /\ clast' = CLast("OnDataChannel", remote, "none", "ok")
    /\ UNCHANGED <<selfMac, wg, received, delivered, crashed, handleConn,
                   rejected, connected>>
    /\ UNCHANGED serverVars

\* dc.OnOpen(func()), registered by createDataChannel on the channel created
\* here and by the OnDataChannel callback on the announced one:
\* m.peers[mac].channel = dc; m.onConnected()
OnOpen(remote) ==
    /\ Receiving
    /\ Negotiated(remote)
    /\ peers[remote].dataChannel \/ peers[remote].announced
    /\ ~peers[remote].channel
    /\ peers' = [peers EXCEPT ![remote].channel = TRUE]
    /\ connected' = [connected EXCEPT ![remote] = @ + 1]
    /\ sent' = <<>>
    /\ dcSent' = <<>>
    /\ clast' = CLast("OnOpen", remote, "none", "ok")
    /\ UNCHANGED <<selfMac, wg, received, delivered, crashed, handleConn,
                   rejected>>
    /\ UNCHANGED serverVars

(***************************************************************************)
(* SendMessage / SendMessageUnicast, called by the application while      *)
(* HandleConn runs, once the hook has told it that a peer is connected.    *)
(* A Send on an open channel succeeds or fails; a Send through the nil     *)
(* channel of a peer whose channel has not opened fails or panics.         *)
(***************************************************************************)
Connected == \E r \in Remotes : connected[r] > 0

Send(to, ok) == [to |-> to, ok |-> ok]

\* channel.Send(wrappedMsg) followed by the return statement of its branch:
\* `return nil` when Send failed, `return err` (err is nil) when it did not
SendAndReturn(op, key) ==
    \E outcome \in (IF peers[key].channel THEN {"ok", "err"}
                    ELSE {"err", "panic"}) :
        /\ dcSent' = <<Send(key, outcome = "ok")>>
        /\ sent' = <<>>
        /\ crashed' = (outcome = "panic")
        /\ clast' = CLast(op, key, "msg",
                          IF outcome = "panic" THEN "panic" ELSE "nil")

\* for key := range m.peers: the first key other than m.mac that the map
\* iteration yields is sent to, and the function returns
SendMessage ==
    /\ Receiving /\ Connected
    /\ IF DOMAIN peers \ {selfMac} = {}
       THEN /\ dcSent' = <<>>
            /\ sent' = <<>>
            /\ clast' = CLast("SendMessage", NoMac, "msg", "nil")
            /\ UNCHANGED crashed
       ELSE \E key \in DOMAIN peers \ {selfMac} :
               SendAndReturn("SendMessage", key)
    /\ UNCHANGED <<peers, selfMac, wg, received, delivered, handleConn,
                   rejected, connected>>
    /\ UNCHANGED serverVars

\* m.peers[mac].channel.Send(wrappedMsg), for a mac the application got
\* from a peer it is connected to
SendMessageUnicast(remote) ==
    /\ Receiving /\ Connected
    /\ remote \in DOMAIN peers
    /\ SendAndReturn("SendMessageUnicast", remote)
    /\ UNCHANGED <<peers, selfMac, wg, received, delivered, handleConn,
                   rejected, connected>>
    /\ UNCHANGED serverVars

ClientNext ==
    \/ /\ HandleAcceptance
       /\ UNCHANGED sysVars
    \/ \E remote \in Remotes :
          HandleIntroduction(remote) /\ UNCHANGED sysVars
    \/ \E remote \in Remotes, payload \in Payloads :
          HandleOfferClient(remote, payload) /\ UNCHANGED sysVars
    \/ \E remote \in Remotes, payload \in Payloads :
          HandleAnswerClient(remote, payload) /\ UNCHANGED sysVars
    \/ \E remote \in Remotes, payload \in Payloads :
          HandleCandidateClient(remote, payload) /\ UNCHANGED sysVars
    \/ \E remote \in Remotes :
          HandleResignation(remote) /\ UNCHANGED sysVars
    \/ /\ HandleRejectionClient
       /\ UNCHANGED sysVars
    \/ /\ ExitClient
       /\ UNCHANGED sysVars
    \/ /\ ReadFailure
       /\ UNCHANGED sysVars

ClientSpec == Init /\ [][ClientNext]_vars

\* the handshakes of one client, the data channels they lead to and the
\* sends of the application; Candidates, which touch neither the channel
\* of a peer nor the hook, are left out
ChannelNext ==
    \/ /\ HandleAcceptance
       /\ UNCHANGED sysVars
    \/ \E remote \in Remotes :
          HandleIntroduction(remote) /\ UNCHANGED sysVars
    \/ \E remote \in Remotes, payload \in Payloads :
          HandleOfferClient(remote, payload) /\ UNCHANGED sysVars
    \/ \E remote \in Remotes, payload \in Payloads :
          HandleAnswerClient(remote, payload) /\ UNCHANGED sysVars
    \/ \E remote \in Remotes :
          HandleResignation(remote) /\ UNCHANGED sysVars
    \/ \E remote \in Remotes :
          OnDataChannel(remote) /\ UNCHANGED sysVars
    \/ \E remote \in Remotes :
          OnOpen(remote) /\ UNCHANGED sysVars
    \/ /\ SendMessage
       /\ UNCHANGED sysVars
    \/ \E remote \in Remotes :
          SendMessageUnicast(remote) /\ UNCHANGED sysVars

ChannelSpec == Init /\ [][ChannelNext]_vars

(***************************************************************************)
(* The steps of the composed system.                                       *)
(***************************************************************************)
\* m[key] = value on a Go map
Put(m, key, value) ==
    [k \in DOMAIN m \cup {key} |-> IF k = key THEN value ELSE m[k]]

\* a wsjson.Write on the client's open transport completes
Transmit(c, msg) ==
    /\ toServer' = [toServer EXCEPT ![c] = Append(@, msg)]
    /\ written' = [written EXCEPT ![c] = Append(@, msg)]

\* the process ends, the transport goes down with it
Ends(c, p) ==
    closed' = IF p.status = "running" THEN closed
              ELSE closed \cup {SysConn[c]}

\* the handlers that take m.lock: createPeer and HandleCandidate
Locks(msg) == msg.opcode \in {"Introduction", "Offer", "Candidate"}

\* the opcode switch of the receive loop and the handler it calls, up to
\* the handler's wsjson.Write; SetLocalDescription starts the gathering of
\* the local candidates of the new peer connection
Handled(p, c, msg) ==
    CASE msg.opcode = "Acceptance" ->
            [p EXCEPT !.mac = c, !.recv = NewReady(c)]
      [] msg.opcode = "Introduction" ->
            [p EXCEPT
                !.wg = @ + 1,
                !.peers = Put(@, msg.mac,
                              [NewPeer EXCEPT !.dataChannel = TRUE,
                                              !.localDescription = "offer"]),
                !.gather = Put(@, msg.mac, MaxGather),
                !.recv = NewOffer("offer", c, msg.mac)]
      [] msg.opcode = "Offer" ->
            [p EXCEPT
                !.peers = Put(@, msg.senderMac,
                              [NewPeer EXCEPT
                                  !.remoteDescription = msg.payload,
                                  !.calls = <<Call("SetRemoteDescription",
                                                   msg.payload)>>,
                                  !.localDescription = "answer"]),
                !.gather = Put(@, msg.senderMac, MaxGather),
                !.recv = NewAnswer("answer", msg.receiverMac, msg.senderMac)]
      [] msg.opcode = "Answer" ->
            IF msg.senderMac \notin DOMAIN p.peers \/ p.wg = 0
            THEN [p EXCEPT !.status = "crashed"]
            ELSE [p EXCEPT
                    !.peers[msg.senderMac] =
                        Drain([@ EXCEPT
                            !.remoteDescription = msg.payload,
                            !.calls = Append(@, Call("SetRemoteDescription",
                                                     msg.payload))]),
                    !.wg = @ - 1]
      [] msg.opcode = "Candidate" ->
            IF msg.senderMac \notin DOMAIN p.peers
            THEN [p EXCEPT !.status = "crashed"]
            ELSE [p EXCEPT
                    !.peers[msg.senderMac] =
                        [@ EXCEPT
                            !.calls =
                                IF p.peers[msg.senderMac].remoteDescription
                                       # "none"
                                THEN Append(@, Call("AddICECandidate",
                                                    msg.payload))
                                ELSE @,
                            !.candidates = Append(@, msg.payload)]]
      [] OTHER -> p

\* the receive loop reads the next message and runs its handler
SysRecv(c) ==
    /\ proc[c].status = "running"
    /\ proc[c].recv = NoMsg
    /\ toClient[c] # <<>>
    /\ LET msg == Head(toClient[c])
           p   == Handled(proc[c], c, msg)
       IN  /\ Locks(msg) => proc[c].ice = NoMsg
           /\ proc' = [proc EXCEPT ![c] = p]
           /\ Ends(c, p)
    /\ toClient' = [toClient EXCEPT ![c] = Tail(@)]
    /\ UNCHANGED <<toServer, written>>
    /\ UNCHANGED <<communities, macs, introducedPeers, applied, out, last,
                   introductions>>
    /\ UNCHANGED clientVars

\* the wsjson.Write of the handler (Ready, Offer or Answer) completes
SysRecvWrite(c) ==
    /\ proc[c].status = "running"
    /\ proc[c].recv # NoMsg
    /\ Transmit(c, proc[c].recv)
    /\ proc' = [proc EXCEPT ![c].recv = NoMsg]
    /\ UNCHANGED toClient
    /\ UNCHANGED <<serverVars, clientVars>>

\* OnICECandidate(i) of the connection to remote: m.lock.Lock(), then
\* wsjson.Write of the Candidate
SysIce(c, remote) ==
    /\ proc[c].status = "running"
    /\ proc[c].ice = NoMsg
    /\ remote \in DOMAIN proc[c].gather
    /\ proc[c].gather[remote] > 0
    /\ proc' = [proc EXCEPT
                   ![c].gather[remote] = @ - 1,
                   ![c].ice = NewCandidate("p1", c, remote)]
    /\ UNCHANGED <<toServer, toClient, written>>
    /\ UNCHANGED <<serverVars, clientVars>>

\* the Write of the callback completes, m.lock.Unlock()
SysIceWrite(c) ==
    /\ proc[c].status = "running"
    /\ proc[c].ice # NoMsg
    /\ Transmit(c, proc[c].ice)
    /\ proc' = [proc EXCEPT ![c].ice = NoMsg]
    /\ UNCHANGED toClient
    /\ UNCHANGED <<serverVars, clientVars>>

\* <-c: the signal handler goroutine calls wsjson.Write(NewExited(uuid))
SysSignal(c) ==
    /\ proc[c].status = "running"
    /\ proc[c].sig = "idle"
    /\ proc' = [proc EXCEPT ![c].sig = "writing"]
    /\ UNCHANGED <<toServer, toClient, written>>
    /\ UNCHANGED <<serverVars, clientVars>>

SysSignalWrite(c) ==
    /\ proc[c].status = "running"
    /\ proc[c].sig = "writing"
    /\ Transmit(c, NewExited(c))
    /\ proc' = [proc EXCEPT ![c].sig = "written"]
    /\ UNCHANGED toClient
    /\ UNCHANGED <<serverVars, clientVars>>

\* os.Exit(0)
SysOsExit(c) ==
    /\ proc[c].status = "running"
    /\ proc[c].sig = "written"
    /\ proc' = [proc EXCEPT ![c].status = "exited"]
    /\ Ends(c, proc'[c])
    /\ UNCHANGED <<toServer, toClient, written>>
    /\ UNCHANGED <<communities, macs, introducedPeers, applied, out, last,
                   introductions>>
    /\ UNCHANGED clientVars

\* case <-config.ExitClient: the select loop calls
\* wsjson.Write(NewExited(uuid))
SysExitClient(c) ==
    /\ proc[c].status = "running"
    /\ proc[c].main = "select"
    /\ proc' = [proc EXCEPT ![c].main = "writing"]
    /\ UNCHANGED <<toServer, toClient, written>>
    /\ UNCHANGED <<serverVars, clientVars>>

SysExitWrite(c) ==
    /\ proc[c].status = "running"
    /\ proc[c].main = "writing"
    /\ Transmit(c, NewExited(c))
    /\ proc' = [proc EXCEPT ![c].main = "written"]
    /\ UNCHANGED toClient
    /\ UNCHANGED <<serverVars, clientVars>>

\* return nil, and the deferred conn.Close; what the goroutines do on the
\* closed transport afterwards reaches nobody
SysReturn(c) ==
    /\ proc[c].status = "running"
    /\ proc[c].main = "written"
    /\ proc' = [proc EXCEPT ![c].status = "returned"]
    /\ Ends(c, proc'[c])
    /\ UNCHANGED <<toServer, toClient, written>>
    /\ UNCHANGED <<communities, macs, introducedPeers, applied, out, last,
                   introductions>>
    /\ UNCHANGED clientVars

\* the handler the server runs for a message read from a connection
Dispatch(c, msg) ==
    CASE msg.opcode = "Application" ->
            HandleApplication(msg.mac, msg.payload, SysConn[c])
      [] msg.opcode = "Ready"     -> HandleReady(msg.mac)
      [] msg.opcode = "Offer"     -> HandleOffer(msg)
      [] msg.opcode = "Answer"    -> HandleAnswer(msg)
      [] msg.opcode = "Candidate" -> HandleCandidate(msg)
      [] msg.opcode = "Exited"    -> HandleExited(msg.mac)

\* the messages the writes of a handler put on the sink of a connection
Sunk(ws, conn) ==
    LET on == SelectSeq(ws, LAMBDA w : w.ok /\ w.conn = conn)
    IN  [i \in 1..Len(on) |-> on[i].msg]

\* the server reads the next message of a client's connection and handles it
SysServe(c) ==
    /\ toServer[c] # <<>>
    /\ Dispatch(c, Head(toServer[c]))
    /\ toServer' = [toServer EXCEPT ![c] = Tail(@)]
    /\ toClient' = [d \in SysClients |->
                       toClient[d] \o Sunk(out', SysConn[d])]
    /\ UNCHANGED <<proc, written>>

HandshakeNext ==
    \E c \in SysClients :
        \/ SysServe(c)
        \/ SysRecv(c)
        \/ SysRecvWrite(c)
        \/ \E remote \in SysClients : SysIce(c, remote)
        \/ SysIceWrite(c)

ExitNext ==
    \E c \in Leavers :
        \/ SysSignal(c)
        \/ SysSignalWrite(c)
        \/ SysOsExit(c)
        \/ SysExitClient(c)
        \/ SysExitWrite(c)
        \/ SysReturn(c)

SystemNext == HandshakeNext \/ ExitNext

\* the two clients and the server, with signals and exit triggers
SystemSpec == Init /\ [][SystemNext]_vars

\* the two clients and the server without exit triggers; every goroutine
\* that can take a step is scheduled, and the server serves every
\* connection
HandshakeFair ==
    \A c \in SysClients :
        /\ WF_vars(SysServe(c))
        /\ WF_vars(SysRecv(c))
        /\ WF_vars(SysRecvWrite(c))
        /\ WF_vars(\E remote \in SysClients : SysIce(c, remote))
        /\ WF_vars(SysIceWrite(c))

HandshakeSpec == Init /\ [][HandshakeNext]_vars /\ HandshakeFair

(***************************************************************************)
(* Properties of the server.                                               *)
(***************************************************************************)
RosterMacs == UNION {Range(communities[c]) : c \in DOMAIN communities}

CommunityOf(mac) == CHOOSE c \in DOMAIN communities : mac \in Range(communities[c])

Writes(ws) == {ws[i] : i \in 1..Len(ws)}

\* C1: between the moment both macs of a pair are registered and the moment
\* the server handles the Exited of one of them, at most one Introduction is
\* put on a sink for the pair, whichever of the two sent Ready and however
\* often Ready is sent again.
C1_AtMostOneIntroduction ==
    \A p \in Pairs : introductions[p] <= 1

\* C1 witness: Ready was sent again by a mac that shares its community with
\* a peer it is already introduced to, and nothing was written.
C1_Witness ==
    /\ last.op = "Ready" /\ last.res = "ok" /\ out = <<>>
    /\ \E peer \in Range(Roster(last.community)) \ {last.mac} :
          introductions[Pair(last.mac, peer)] = 1

\* C2: a Ready(mac) handled without error writes, for every other peer of
\* mac's roster whose pair with mac was not in the ledger, exactly one
\* Introduction naming mac on that peer's connection; it writes nothing
\* else, in particular nothing on mac's own connection and nothing on the
\* connection of a mac of another community; and the pair is in the ledger
\* afterwards.
C2_ReadyStep ==
    (last'.op = "Ready" /\ last'.res = "ok") =>
        LET mac    == last'.mac
            roster == Roster(last'.community)
            fresh  == {peer \in Range(roster) \ {mac} : ~introduced(mac, peer)}
        IN  /\ \A peer \in fresh :
                  /\ Cardinality({i \in 1..Len(out') :
                         /\ out'[i].conn = macs[peer]
                         /\ out'[i].ok
                         /\ out'[i].msg = NewIntroduction(mac)}) = 1
                  /\ introducedIn(introducedPeers', mac, peer)
            /\ Len(out') = Cardinality(fresh)
            /\ \A w \in Writes(out') :
                  /\ w.conn # macs[mac]
                  /\ w.conn \in {macs[peer] : peer \in fresh}
                  /\ \A other \in DOMAIN macs \ Range(roster) :
                        w.conn # macs[other]

C2_ReadyIntroducesFresh == [][C2_ReadyStep]_vars

\* C2 witness: a Ready handled without error that wrote an Introduction
\* while a mac of another community was registered.
C2_Witness ==
    /\ last.op = "Ready" /\ last.res = "ok" /\ Len(out) >= 1
    /\ out[1].ok /\ out[1].msg = NewIntroduction(last.mac)
    /\ Cardinality(DOMAIN communities) = 2

\* C3: in every reachable state the macs of the rosters are the keys of the
\* endpoint map, and no mac occurs twice across the rosters.
C3_RostersMatchEndpoints ==
    /\ RosterMacs = DOMAIN macs
    /\ \A c \in DOMAIN communities :
          /\ \A i, j \in 1..Len(communities[c]) :
                communities[c][i] = communities[c][j] => i = j
          /\ \A d \in DOMAIN communities \ {c} :
                Range(communities[c]) \cap Range(communities[d]) = {}

\* C3 witness: an Exited whose broadcast failed, with both communities
\* populated.
C3_Witness ==
    /\ last.op = "Exited" /\ last.res = "err" /\ Len(out) >= 1
    /\ Cardinality(DOMAIN communities) = 2
    /\ Cardinality(DOMAIN macs) = 3

\* C4: an Application whose mac is already registered gets one write, a
\* Rejection on the applying connection, no Acceptance, and leaves the
\* rosters, the endpoint map and the ledger as they were.
C4_RejectStep ==
    (last'.op = "Application" /\ last'.mac \in DOMAIN macs) =>
        /\ Len(out') = 1
        /\ out'[1].conn = last'.conn
        /\ out'[1].msg = NewRejection
        /\ \A w \in Writes(out') : w.msg # NewAcceptance
        /\ communities' = communities
        /\ macs' = macs
        /\ introducedPeers' = introducedPeers

C4_DuplicateMacRejected == [][C4_RejectStep]_vars

\* C4 witness: a second connection applied with a registered mac and got
\* the Rejection; the mac is still bound to the first connection.
C4_Witness ==
    /\ last.op = "Application"
    /\ Len(out) = 1 /\ out[1].msg = NewRejection /\ out[1].ok
    /\ last.mac \in DOMAIN macs /\ macs[last.mac] # last.conn
    /\ Len(introducedPeers) >= 1

\* C5 (the claim as stated, for the members that can receive at all): when
\* Exited(m) is handled for a registered m, every other member of m's
\* community whose connection is open gets exactly one Resignation(m), and
\* nobody else gets one.
C5_ExitedStep ==
    (last'.op = "Exited" /\ getCommunity(last'.mac) # {}) =>
        LET m      == last'.mac
            roster == Roster(last'.community)
            got(q) == Cardinality({i \in 1..Len(out') :
                          /\ out'[i].conn = macs[q]
                          /\ out'[i].ok
                          /\ out'[i].msg = NewResignation(m)})
        IN  /\ \A q \in Range(roster) \ {m} : WriteOk(macs[q]) => got(q) = 1
            /\ \A q \in (DOMAIN macs \ Range(roster)) \cup {m} : got(q) = 0

C5_ResignationToEveryMember == [][C5_ExitedStep]_vars

\* C6: handling Exited(m) for a registered m leaves in the ledger exactly
\* the entries that do not name m, in their order; and a Ready writes no
\* Introduction between two macs whose pair is in the ledger.
C6_KeptEntries(m) ==
    {i \in 1..Len(introducedPeers) :
        introducedPeers[i][1] # m /\ introducedPeers[i][2] # m}

C6_ExitedStep ==
    (last'.op = "Exited" /\ getCommunity(last'.mac) # {}) =>
        LET keep == C6_KeptEntries(last'.mac) IN
        /\ Len(introducedPeers') = Cardinality(keep)
        /\ \A i \in keep :
              introducedPeers'[Cardinality({j \in keep : j <= i})]
                  = introducedPeers[i]

C6_ReadyStep ==
    (last'.op = "Ready") =>
        \A w \in Writes(out') :
            w.msg.opcode = "Introduction" =>
                ~introduced(w.to, w.msg.mac)

C6_ExitedPurgesOnlyItsPairs == [][C6_ExitedStep /\ C6_ReadyStep]_vars

\* C6 witness: three macs of one community were pairwise introduced, one of
\* them exited, its two ledger entries are gone and the third remains.
C6_Witness ==
    /\ last.op = "Exited" /\ last.res = "ok" /\ last.removed = 2
    /\ Len(out) = 2
    /\ Len(introducedPeers) = 1
    /\ Range(Roster(last.community)) =
           {introducedPeers[1][1], introducedPeers[1][2]}

\* C7: an Offer, Answer or Candidate whose receiverMac is registered is
\* written once, as it came, on the connection bound to receiverMac and on
\* no other, and rosters, endpoints and ledger stay as they were.
C7_RelayStep ==
    (last'.op \in RelayOps /\ last'.msg.receiverMac \in DOMAIN macs) =>
        /\ Len(out') = 1
        /\ out'[1].conn = macs[last'.msg.receiverMac]
        /\ out'[1].msg = last'.msg
        /\ communities' = communities
        /\ macs' = macs
        /\ introducedPeers' = introducedPeers

C7_RelayedUnchanged == [][C7_RelayStep]_vars

\* C7 witness: an Offer reached the connection of its registered receiver
\* while another mac was registered too.
C7_Witness ==
    /\ last.op = "Offer" /\ last.res = "ok"
    /\ last.msg.receiverMac \in DOMAIN macs
    /\ Len(out) = 1 /\ out[1].ok
    /\ out[1].conn = macs[last.msg.receiverMac]
    /\ last.msg.senderMac \in DOMAIN macs

\* C8 (the claim as stated): an Offer, Answer or Candidate whose
\* receiverMac is not registered is dropped: no write is made and the
\* handler returns without error.
C8_MissingReceiverDropped ==
    (last.op \in RelayOps /\ last.msg.receiverMac \notin DOMAIN macs) =>
        (last.res = "ok" /\ out = <<>>)

(***************************************************************************)
(* Properties of the client.                                               *)
(***************************************************************************)
AddCalls(remote) ==
    Len(SelectSeq(peers[remote].calls,
                  LAMBDA c : c.call = "AddICECandidate"))

\* C9 (the claim as stated): whatever the order of a remote's Candidates and
\* its Offer or Answer, the client survives them, and once the remote's
\* description is installed the AddICECandidate calls made on that remote's
\* connection are as many as the Candidates received from it.
C9_OneAddPerCandidate ==
    /\ ~crashed
    /\ \A remote \in DOMAIN peers :
          peers[remote].remoteDescription # "none" =>
              AddCalls(remote) = Len(received[remote])

\* C10: on the offering side a Candidate that arrives before the Answer is
\* appended to the buffer and not applied; handling the Answer appends to
\* the connection's calls SetRemoteDescription and then one AddICECandidate
\* per buffered candidate, in the order of the buffer, and empties the buffer.
C10_CandidateStep ==
    (/\ clast'.op = "Candidate" /\ clast'.res = "ok"
     /\ "Introduction" \in delivered[clast'.remote]
     /\ peers[clast'.remote].remoteDescription = "none") =>
        LET r == clast'.remote IN
        /\ peers'[r].calls = peers[r].calls
        /\ peers'[r].candidates =
               Append(peers[r].candidates, clast'.payload)
        /\ peers'[r].candidates = received'[r]

C10_AnswerStep ==
    (clast'.op = "Answer" /\ clast'.res = "ok") =>
        LET r    == clast'.remote
            held == peers[r].candidates
            new  == peers'[r].calls
            base == Len(peers[r].calls)
        IN  /\ Len(new) = base + 1 + Len(held)
            /\ SubSeq(new, 1, base) = peers[r].calls
            /\ new[base + 1] = Call("SetRemoteDescription", clast'.payload)
            /\ \A i \in 1..Len(held) :
                  new[base + 1 + i] = Call("AddICECandidate", held[i])
            /\ peers'[r].candidates = <<>>

C10_BufferedThenDrained == [][C10_CandidateStep /\ C10_AnswerStep]_vars

\* C10 witness: two different candidates were buffered before the Answer
\* and were fed, in their order, after SetRemoteDescription.
C10_Witness ==
    /\ clast.op = "Answer" /\ clast.res = "ok"
    /\ received[clast.remote] = <<"p2", "p1">>
    /\ peers[clast.remote].calls =
           <<Call("SetRemoteDescription", clast.payload),
             Call("AddICECandidate", "p2"), Call("AddICECandidate", "p1")>>
    /\ peers[clast.remote].candidates = <<>>

\* C11 (the claim as stated): a Candidate from a remote for which the client
\* has received neither Introduction nor Offer is handled without failure,
\* and every Candidate received from a remote has been applied to that
\* remote's connection once its remote description is installed.
C11_EarlyCandidateTolerated ==
    \A r \in Remotes :
        /\ (clast.op = "Candidate" /\ clast.remote = r
                /\ delivered[r] = {}) => clast.res = "ok"
        /\ (r \in DOMAIN peers /\ peers[r].remoteDescription # "none") =>
              \A i \in 1..Len(received[r]) :
                  \E j \in 1..Len(peers[r].calls) :
                      peers[r].calls[j] =
                          Call("AddICECandidate", received[r][i])

\* C13 (the claim as stated): a client that is waiting for the answer to its
\* Application and receives Rejection sends no Ready and ends HandleConn
\* with a non-nil error instead of staying in the receive loop.
C13_RejectionCloses ==
    clast.op = "Rejection" => (handleConn = "err" /\ sent = <<>>)

\* C14 (the claim as stated): once Resignation(remote) is handled the peer
\* map has no entry for remote, and the entries of the other remotes are
\* what they were.
C14_ResignationStep ==
    clast'.op = "Resignation" =>
        /\ clast'.remote \notin DOMAIN peers'
        /\ \A r \in DOMAIN peers \ {clast'.remote} :
              r \in DOMAIN peers' /\ peers'[r] = peers[r]

C14_ResignationDropsPeer == [][C14_ResignationStep]_vars

(***************************************************************************)
(* Properties of the server, continued.                                    *)
(***************************************************************************)
HandlerOps == {"Ready", "Offer", "Answer", "Candidate", "Exited"}

\* C17 (the claim as stated): when a write to the sink of a registered mac
\* fails while the server handles a message of another peer, the mac bound
\* to the failed connection is treated as exited: it leaves the endpoint
\* map, every roster and the ledger, the members of its community are sent
\* Resignation for it, and the message being handled is carried through (a
\* Ready still reaches every member not yet introduced to its sender).
C17_FailedWriteStep ==
    \A i \in 1..Len(out') :
        LET w == out'[i] IN
        (/\ last'.op \in HandlerOps
         /\ ~w.ok
         /\ w.to \in DOMAIN macs /\ w.conn = macs[w.to]) =>
            /\ w.to \notin DOMAIN macs'
            /\ \A c \in DOMAIN communities' :
                  w.to \notin Range(communities'[c])
            /\ removeAssociatedPairs(introducedPeers', w.to)
                   = introducedPeers'
            /\ \A m \in RosterMacs \ {w.to} :
                  CommunityOf(m) = CommunityOf(w.to) =>
                      \E j \in 1..Len(out') :
                          /\ out'[j].to = m
                          /\ out'[j].msg = NewResignation(w.to)
            /\ last'.op = "Ready" =>
                  \A m \in Range(Roster(last'.community))
                               \ {last'.mac, w.to} :
                      ~introduced(last'.mac, m) =>
                          \E j \in 1..Len(out') : out'[j].to = m

C17_WriteFailureIsExit == [][C17_FailedWriteStep]_vars

\* C18: no community maps to an empty roster; when Exited(m) is handled to
\* the end, the roster of m's community is the old roster without m, the
\* others in their old order, and the community is gone if m was its last
\* member.
C18_ExitedStep ==
    (last'.op = "Exited" /\ last'.res = "ok") =>
        LET c    == last'.community
            rest == SelectSeq(communities[c], LAMBDA x : x # last'.mac)
        IN  IF rest = <<>>
            THEN c \notin DOMAIN communities'
            ELSE c \in DOMAIN communities' /\ communities'[c] = rest

C18_Step ==
    /\ \A c \in DOMAIN communities' : communities'[c] # <<>>
    /\ C18_ExitedStep

C18_NoEmptyRosterOrderKept == [][C18_Step]_vars

\* C18 witness: a member other than the last one left a roster of three,
\* and the two that remain are in their old order.
C18_Witness ==
    /\ last.op = "Exited" /\ last.res = "ok" /\ last.mac = "A"
    /\ "c" \in DOMAIN communities
    /\ communities["c"] = <<"B", "C">>
    /\ "d" \notin DOMAIN communities
    /\ Len(out) = 2

(***************************************************************************)
(* Properties of the client, continued.                                    *)
(***************************************************************************)
\* C19: the onConnected hook has been called once for a remote whose data
\* channel has opened, the opened channel then being stored in that
\* remote's peer, and not at all for any other remote; a call of the hook
\* is made by the step in which the remote's channel opens.
C19_HookCount ==
    \A r \in Remotes :
        connected[r] =
            IF r \in DOMAIN peers /\ peers[r].channel THEN 1 ELSE 0

C19_HookStep ==
    \A r \in Remotes :
        connected'[r] # connected[r] =>
            /\ clast'.op = "OnOpen" /\ clast'.remote = r
            /\ ~peers[r].channel /\ peers'[r].channel

C19_ConnectedOncePerOpen == [][C19_HookCount' /\ C19_HookStep]_vars

\* C19 witness: the channel the client created for B (offering side) and
\* the channel C announced (answering side) have both opened.
C19_Witness ==
    /\ "Introduction" \in delivered["B"] /\ "Offer" \in delivered["C"]
    /\ peers["B"].dataChannel /\ peers["B"].channel
    /\ peers["C"].announced /\ peers["C"].channel
    /\ connected = [r \in Remotes |-> 1]
    /\ clast.op = "OnOpen"

\* C20 (the claim as stated): SendMessage calls Send on the channel of
\* every peer other than the client's own mac and returns a non-nil error
\* exactly when one of those Sends failed; SendMessageUnicast calls Send on
\* the channel of the named peer and returns a non-nil error exactly when
\* that Send failed.
C20_SendReportsFailure ==
    LET to     == {dcSent[i].to : i \in 1..Len(dcSent)}
        failed == \E i \in 1..Len(dcSent) : ~dcSent[i].ok
    IN  /\ (clast.op = "SendMessage" /\ clast.res # "panic") =>
              /\ to = DOMAIN peers \ {selfMac}
              /\ (clast.res = "err") <=> failed
        /\ (clast.op = "SendMessageUnicast" /\ clast.res # "panic") =>
              /\ to = {clast.remote}
              /\ (clast.res = "err") <=> failed

(***************************************************************************)
(* Properties of the composed system.                                      *)
(***************************************************************************)
\* the goroutines of a client that are inside a wsjson.Write on its transport
Writers(c) ==
    (IF proc[c].recv # NoMsg THEN {"receive loop"} ELSE {})
    \cup (IF proc[c].ice # NoMsg THEN {"OnICECandidate"} ELSE {})
    \cup (IF proc[c].sig = "writing" THEN {"signal handler"} ELSE {})
    \cup (IF proc[c].main = "writing" THEN {"select loop"} ELSE {})

\* c has handled Introduction(remote): it holds a peer for remote with the
\* data channel it created
Offering(c, remote) ==
    /\ remote \in DOMAIN proc[c].peers
    /\ proc[c].peers[remote].dataChannel

\* c has installed the Answer of remote as the remote description
Answered(c, remote) ==
    /\ remote \in DOMAIN proc[c].peers
    /\ proc[c].peers[remote].remoteDescription = "answer"

\* C12 (the claim as stated): with both clients accepted in one community,
\* no exit and no transport failure, a client that has handled
\* Introduction(remote) eventually has the remote's Answer installed as the
\* remote description of its connection to remote (its Offer having been
\* relayed to remote and the Answer relayed back).
C12_HandshakeCompletes ==
    \A c \in SysClients : \A remote \in SysClients \ {c} :
        Offering(c, remote) ~> Answered(c, remote)

\* C15 (the claim as stated): a client that left through a signal or the
\* exit trigger has written Exited(self) exactly once, and that Exited is
\* the last message written on its transport.
C15_ExitedIsLastWrite ==
    \A c \in SysClients :
        proc[c].status \in {"returned", "exited"} =>
            /\ written[c][Len(written[c])] = NewExited(c)
            /\ Len(SelectSeq(written[c],
                             LAMBDA msg : msg.opcode = "Exited")) = 1

\* C16 (the claim as stated): at most one goroutine of a client is inside
\* a write on the client's transport at any time.
C16_WritesSerialized ==
    \A c \in SysClients : Cardinality(Writers(c)) <= 1

=============================================================================
